---- MODULE Spec2Model ----
(***************************************************************************)
(* The OAuth adaptor of adaptors/oauth/oauth.go: the adaptor's fields, the *)
(* routes and the error handler it registers at boot, the provider         *)
(* registry of the goth library, the session store, and the requests       *)
(* served by the request-initiation route and by the callback route.       *)
(***************************************************************************)
EXTENDS Integers, Sequences, FiniteSets, TLC

\* ---------------------------------------------------------------- bounds
\* Requests whose handler chain may be in flight at the same time.
MaxReqs == 2
\* Handlers held by successHandlers (the auth middleware not counted).
MaxHandlers == 2
\* Sessions of the session store.
MaxSessions == 2

ReqIds == 1..MaxReqs
SessionIds == 1..MaxSessions

\* ------------------------------------------------------------ input sets
\* The user's fail handler. A Success handler is named by its place in the
\* order of registration: Handler(1) is the first one registered.
FailHandlers == {"onFail"}
Handler(k) == <<"success", k>>
\* Provider names a request may carry in its path (none, a configured one,
\* an unknown one) and in its query.
PathNames == {"", "github", "nope"}
QueryNames == {"", "github"}
\* The "state" query parameter of a request.
States == {"", "xyz"}
\* The providers the configuration record has fields for, in the order
\* GenerateProviders lists them.
AllProviders == <<"github", "facebook">>

Nil == "nil"
NoErr == "no error"
ErrNoProvider == "getProviderName error: you must select a provider"
ErrLookup == "no provider for this name exists"
ErrNoSession == "completeUserAuth error: could not find a matching session for this request"
ErrBeginAuth == "provider.BeginAuth failed"
ErrAuthURL == "session.GetAuthURL failed"
ErrUnmarshal == "provider.UnmarshalSession failed"
ErrAuthorize == "session.Authorize failed"
ErrFetchUser == "provider.FetchUser failed"

StatusFound == 302
StatusUnauthorized == 401
StatusNotFound == 404

DevMode == "DevMode"

\* The zero goth.User, and the user a provider fetches.
EmptyUser == [Provider |-> ""]
FetchedUser(name) == [Provider |-> name]
\* What a call of Oauth.User gave: a user, or the panic of a failed type
\* assertion (interface conversion: interface is nil, not goth.User).
NotCalled == [called |-> FALSE, panic |-> FALSE, user |-> EmptyUser]
Returned(u) == [called |-> TRUE, panic |-> FALSE, user |-> u]
Panic == [called |-> TRUE, panic |-> TRUE, user |-> EmptyUser]

\* What the provider library answers to the calls of one request.
BeginOutcomes == {"ok", "beginAuthErr", "authURLErr"}
CompleteOutcomes == {"ok", "unmarshalErr", "authorizeErr", "fetchErr"}

VARIABLES
    Config,           \* p.Config
    successHandlers,  \* p.successHandlers
    failHandler,      \* p.failHandler
    station,          \* p.station
    booted,           \* the framework has fired its Boot event
    routes,           \* the framework's routes: path -> handler chain
    errorHandlers,    \* the framework's custom error handlers: status -> handler
    providers,        \* goth's provider registry
    sessions,         \* the session store: the entry under SessionValueKey
    ctxs,             \* the contexts of the requests whose chain is in flight
    lastBegin,        \* per session, what the last successful begin-auth marshalled
    obs               \* the handler that ran last, with what it did

vars == <<Config, successHandlers, failHandler, station, booted, routes,
          errorHandlers, providers, sessions, ctxs, lastBegin, obs>>

\* ------------------------------------------------------- configuration
\* DefaultConfig().MergeSingle(cfg): the paths and the path parameter the
\* operator gives (any of them may be left empty), and the providers whose
\* key and secret are set.
Configs ==
    [RequestPath : {"", "/oauth/{provider}"},
     CallbackRelativePath : {"", "/callback"},
     RequestPathParam : {"", "provider"},
     RouteName : {"oauth"},
     ContextKey : {"oauth_user"},
     Credentials : {{}, {"github"}}]

\* Config.GenerateProviders: one provider per configured credential pair.
GenerateProviders(cfg) ==
    SelectSeq(AllProviders, LAMBDA n : n \in cfg.Credentials)

SeqToSet(s) == {s[i] : i \in 1..Len(s)}

\* --------------------------------------------------------------- requests
\* A request: its session, its named path parameters and its query.
BeginRequests ==
    [sess : SessionIds, params : [provider : PathNames],
     query : [provider : QueryNames, state : States]]
CallbackRequests ==
    [sess : SessionIds, params : [provider : PathNames],
     query : [provider : QueryNames, state : {""}]]

\* ctx.Param(key) and ctx.URLParam(key): empty when the key is absent.
Param(req, key) == IF key \in DOMAIN req.params THEN req.params[key] ELSE ""
URLParam(req, key) == IF key \in DOMAIN req.query THEN req.query[key] ELSE ""

\* ctx.Get(key): the nil interface when nothing is stored under the key.
Get(values, key) ==
    IF key \in DOMAIN values THEN [isNil |-> FALSE, value |-> values[key]]
    ELSE [isNil |-> TRUE, value |-> EmptyUser]
NoValues == <<>>

\* A context with no request in it.
Idle == [busy |-> FALSE, values |-> NoValues, ran |-> <<>>, status |-> 0]

\* The provider library's session: marshalled to the blob the store keeps.
\* NoEntry: no value under SessionValueKey; NoURL: no URL.
NoEntry == <<>>
NoURL == <<>>
Marshal(s) == <<"session", s.provider, s.state>>
AuthURL(s) == <<"authorize", s.provider, s.state>>

NoObs ==
    [kind |-> "none", path |-> "", query |-> "", name |-> "", err |-> NoErr,
     status |-> 0, redirect |-> NoURL, logs |-> <<>>, calls |-> <<>>,
     hadSession |-> FALSE, user |-> EmptyUser, values |-> NoValues,
     ran |-> <<>>, next |-> FALSE, fired |-> Nil, userResult |-> NotCalled]

Init ==
    /\ Config \in Configs
    /\ successHandlers = <<>>
    /\ failHandler = Nil
    /\ station = Nil
    /\ booted = FALSE
    /\ routes = [path \in {} |-> <<>>]
    /\ errorHandlers = [status \in {} |-> Nil]
    /\ providers = {}
    /\ sessions = [s \in SessionIds |-> NoEntry]
    /\ ctxs = [r \in ReqIds |-> Idle]
    /\ lastBegin = [s \in SessionIds |-> NoEntry]
    /\ obs = NoObs

\* ------------------------------------------------------------ registration
\* Oauth.Success: appends the n handlers it is given. Handlers are given
\* before the framework boots, as in _example/main.go.
Success(n) ==
    /\ ~ booted
    /\ Len(successHandlers) + n <= MaxHandlers
    /\ successHandlers' = successHandlers
                             \o [i \in 1..n |-> Handler(Len(successHandlers) + i)]
    /\ UNCHANGED <<Config, failHandler, station, booted, routes, errorHandlers,
                   providers, sessions, ctxs, lastBegin, obs>>

\* Oauth.Fail: sets the fail handler.
Fail(h) ==
    /\ ~ booted
    /\ failHandler # h
    /\ failHandler' = h
    /\ UNCHANGED <<Config, successHandlers, station, booted, routes, errorHandlers,
                   providers, sessions, ctxs, lastBegin, obs>>

RequestRoute == <<Config.RequestPath>>
CallbackRoute == <<Config.RequestPath, Config.CallbackRelativePath>>

\* Mutant of Enabled: the adaptor is disabled only when all three settings
\* are empty.
EnabledUnlessAllEmpty(cfg) ==
    /\ ~ (cfg.RequestPath = "" /\ cfg.CallbackRelativePath = "" /\ cfg.RequestPathParam = "")
    /\ Len(GenerateProviders(cfg)) > 0

\* boot's two guards: the three settings are set, and a provider is configured.
Enabled(cfg) ==
    /\ ~ (cfg.RequestPath = "" \/ cfg.CallbackRelativePath = "" \/ cfg.RequestPathParam = "")
    /\ Len(GenerateProviders(cfg)) > 0

\* Mutant of WithAuthMiddleware: the auth middleware is appended.
WithAuthMiddlewareLast(hs) == hs \o <<"authMiddleware">>

\* boot puts the auth middleware in front of the handlers Success gave.
WithAuthMiddleware(hs) == <<"authMiddleware">> \o hs

\* Oauth.boot, run once by the framework's Boot event.
boot ==
    /\ ~ booted
    /\ booted' = TRUE
    /\ IF Enabled(Config)
       THEN /\ providers' = providers \cup SeqToSet(GenerateProviders(Config))
            /\ successHandlers' = WithAuthMiddleware(successHandlers)
            /\ routes' = (RequestRoute :> <<"requestHandler">>)
                         @@ (CallbackRoute :> successHandlers')
            /\ station' = "framework"
            /\ errorHandlers' = IF failHandler # Nil
                                THEN (StatusUnauthorized :> failHandler) @@ errorHandlers
                                ELSE errorHandlers
       ELSE UNCHANGED <<providers, successHandlers, routes, station, errorHandlers>>
    /\ UNCHANGED <<Config, failHandler, sessions, ctxs, lastBegin, obs>>

\* ------------------------------------------------------ the adaptor's calls
\* Mutant of GetProviderName: the query parameter is read first.
GetProviderNameQueryFirst(req) ==
    LET fromQuery == URLParam(req, Config.RequestPathParam)
        provider == IF fromQuery = "" THEN Param(req, Config.RequestPathParam)
                    ELSE fromQuery
    IN IF provider = ""
       THEN [name |-> provider, err |-> ErrNoProvider]
       ELSE [name |-> provider, err |-> NoErr]

\* Oauth.GetProviderName: the named path parameter, else the query parameter.
GetProviderName(req) ==
    LET fromPath == Param(req, Config.RequestPathParam)
        provider == IF fromPath = "" THEN URLParam(req, Config.RequestPathParam)
                    ELSE fromPath
    IN IF provider = ""
       THEN [name |-> provider, err |-> ErrNoProvider]
       ELSE [name |-> provider, err |-> NoErr]

\* goth.GetProvider: the registered provider, or the lookup error.
GetProvider(name) ==
    IF name \in providers THEN [ok |-> TRUE, err |-> NoErr]
    ELSE [ok |-> FALSE, err |-> ErrLookup]

\* setState: the request's state parameter, or "state".
setState(req) ==
    LET state == URLParam(req, "state")
    IN IF state # "" THEN state ELSE "state"

NoAuthURL(err, calls) == [url |-> NoURL, err |-> err, calls |-> calls, set |-> NoEntry]

\* Mutant of GetAuthURL: the provider is used without its lookup being checked.
GetAuthURLNoLookupCheck(req, ext) ==
    LET pn == GetProviderName(req) IN
    IF pn.err # NoErr THEN NoAuthURL(pn.err, <<>>)
    ELSE IF ext = "beginAuthErr" THEN NoAuthURL(ErrBeginAuth, <<"BeginAuth">>)
    ELSE IF ext = "authURLErr"
    THEN NoAuthURL(ErrAuthURL, <<"BeginAuth", "GetAuthURL">>)
    ELSE LET sess == [provider |-> pn.name, state |-> setState(req)]
         IN [url |-> AuthURL(sess), err |-> NoErr,
             calls |-> <<"BeginAuth", "GetAuthURL">>, set |-> Marshal(sess)]

\* Mutant of GetAuthURL: the session is written before the URL's error is
\* looked at.
GetAuthURLSetsEarly(req, ext) ==
    LET pn == GetProviderName(req) IN
    IF pn.err # NoErr THEN NoAuthURL(pn.err, <<>>)
    ELSE IF GetProvider(pn.name).err # NoErr
    THEN NoAuthURL(GetProvider(pn.name).err, <<>>)
    ELSE IF ext = "beginAuthErr" THEN NoAuthURL(ErrBeginAuth, <<"BeginAuth">>)
    ELSE LET sess == [provider |-> pn.name, state |-> setState(req)]
         IN IF ext = "authURLErr"
            THEN [url |-> NoURL, err |-> ErrAuthURL,
                  calls |-> <<"BeginAuth", "GetAuthURL">>, set |-> Marshal(sess)]
            ELSE [url |-> AuthURL(sess), err |-> NoErr,
                  calls |-> <<"BeginAuth", "GetAuthURL">>, set |-> Marshal(sess)]

\* Oauth.GetAuthURL. ext is what the provider answers; set is the value put
\* in the session under SessionValueKey (NoEntry: the session is not written).
GetAuthURL(req, ext) ==
    LET pn == GetProviderName(req) IN
    IF pn.err # NoErr THEN NoAuthURL(pn.err, <<>>)
    ELSE IF GetProvider(pn.name).err # NoErr
    THEN NoAuthURL(GetProvider(pn.name).err, <<>>)
    ELSE IF ext = "beginAuthErr" THEN NoAuthURL(ErrBeginAuth, <<"BeginAuth">>)
    ELSE IF ext = "authURLErr"
    THEN NoAuthURL(ErrAuthURL, <<"BeginAuth", "GetAuthURL">>)
    ELSE LET sess == [provider |-> pn.name, state |-> setState(req)]
         IN [url |-> AuthURL(sess), err |-> NoErr,
             calls |-> <<"BeginAuth", "GetAuthURL">>, set |-> Marshal(sess)]

\* Oauth.BeginAuthHandler: a redirect to the URL, or a 404 and the error.
BeginAuthHandler(req, ext) ==
    LET a == GetAuthURL(req, ext)
    IN IF a.err # NoErr
       THEN [status |-> StatusNotFound, redirect |-> NoURL, err |-> a.err,
             calls |-> a.calls, set |-> a.set]
       ELSE [status |-> StatusFound, redirect |-> a.url, err |-> NoErr,
             calls |-> a.calls, set |-> a.set]

\* Mutant of requestHandler: the error is not logged.
requestHandlerNoLog(req, ext) ==
    LET b == BeginAuthHandler(req, ext)
    IN [status |-> b.status, redirect |-> b.redirect, err |-> b.err,
        calls |-> b.calls, set |-> b.set, logs |-> <<>>]

\* The handler boot puts on the request-initiation route.
requestHandler(req, ext) ==
    LET b == BeginAuthHandler(req, ext)
    IN [status |-> b.status, redirect |-> b.redirect, err |-> b.err,
        calls |-> b.calls, set |-> b.set,
        logs |-> IF b.err # NoErr THEN <<DevMode>> ELSE <<>>]

NoUser(err, calls) == [user |-> EmptyUser, err |-> err, calls |-> calls, set |-> NoEntry]

\* Mutant of CompleteUserAuth: the stored entry is unmarshalled without the
\* check that there is one.
CompleteUserAuthNoSessionCheck(req, stored, ext) ==
    LET pn == GetProviderName(req) IN
    IF pn.err # NoErr THEN NoUser(pn.err, <<>>)
    ELSE IF GetProvider(pn.name).err # NoErr
    THEN NoUser(GetProvider(pn.name).err, <<>>)
    ELSE IF ext = "unmarshalErr" THEN NoUser(ErrUnmarshal, <<"UnmarshalSession">>)
    ELSE IF ext = "authorizeErr"
    THEN NoUser(ErrAuthorize, <<"UnmarshalSession", "Authorize">>)
    ELSE IF ext = "fetchErr"
    THEN NoUser(ErrFetchUser, <<"UnmarshalSession", "Authorize", "FetchUser">>)
    ELSE [user |-> FetchedUser(pn.name), err |-> NoErr,
          calls |-> <<"UnmarshalSession", "Authorize", "FetchUser">>, set |-> NoEntry]

\* Oauth.CompleteUserAuth. stored is the session's entry under
\* SessionValueKey; ext is what the provider answers.
CompleteUserAuth(req, stored, ext) ==
    LET pn == GetProviderName(req) IN
    IF pn.err # NoErr THEN NoUser(pn.err, <<>>)
    ELSE IF GetProvider(pn.name).err # NoErr
    THEN NoUser(GetProvider(pn.name).err, <<>>)
    ELSE IF stored = NoEntry THEN NoUser(ErrNoSession, <<>>)
    ELSE IF ext = "unmarshalErr" THEN NoUser(ErrUnmarshal, <<"UnmarshalSession">>)
    ELSE IF ext = "authorizeErr"
    THEN NoUser(ErrAuthorize, <<"UnmarshalSession", "Authorize">>)
    ELSE IF ext = "fetchErr"
    THEN NoUser(ErrFetchUser, <<"UnmarshalSession", "Authorize", "FetchUser">>)
    ELSE [user |-> FetchedUser(pn.name), err |-> NoErr,
          calls |-> <<"UnmarshalSession", "Authorize", "FetchUser">>, set |-> NoEntry]

\* Mutant of authMiddleware: no return after the 401, so the user is set
\* and the next handler called all the same.
authMiddlewareNoReturn(req, stored, ext) ==
    LET c == CompleteUserAuth(req, stored, ext)
    IN [err |-> c.err, user |-> c.user, calls |-> c.calls, set |-> c.set,
        status |-> IF c.err # NoErr THEN StatusUnauthorized ELSE 0,
        logs |-> IF c.err # NoErr THEN <<DevMode>> ELSE <<>>,
        values |-> (Config.ContextKey :> c.user), next |-> TRUE]

\* boot's authMiddleware: on an error a 401 and a log entry, else the user
\* is put in the context and the next handler is called.
authMiddleware(req, stored, ext) ==
    LET c == CompleteUserAuth(req, stored, ext)
    IN IF c.err # NoErr
       THEN [err |-> c.err, user |-> c.user, calls |-> c.calls, set |-> c.set,
             status |-> StatusUnauthorized, logs |-> <<DevMode>>,
             values |-> NoValues, next |-> FALSE]
       ELSE [err |-> NoErr, user |-> c.user, calls |-> c.calls, set |-> c.set,
             status |-> 0, logs |-> <<>>,
             values |-> (Config.ContextKey :> c.user), next |-> TRUE]

\* Oauth.User: the value under ContextKey asserted to be a goth.User; the
\* assertion panics on the nil that ctx.Get returns for a missing value.
User(values) ==
    IF Get(values, Config.ContextKey).isNil THEN Panic
    ELSE Returned(Get(values, Config.ContextKey).value)

\* The provider answers only the requests that get as far as calling it.
BeginAnswers(req) ==
    IF GetAuthURL(req, "ok").calls = <<>> THEN {"ok"} ELSE BeginOutcomes
CompleteAnswers(req, stored) ==
    IF CompleteUserAuth(req, stored, "ok").calls = <<>> THEN {"ok"}
    ELSE CompleteOutcomes

\* Mutant of SessionSet: the value is kept in one place for all sessions.
SessionSetShared(store, sess, value) == [s \in DOMAIN store |-> value]

\* ctx.Session().Set(SessionValueKey, value) in the request's session.
SessionSet(store, sess, value) == [store EXCEPT ![sess] = value]

\* ---------------------------------------------------------------- requests
\* ctx.EmitError(status): the handler registered for the status, else the
\* framework's default one.
ErrorHandlerFor(status) ==
    IF status \in DOMAIN errorHandlers THEN errorHandlers[status] ELSE "default"

\* A request to the request-initiation route: its handler runs to the end.
BeginAuthRequest(req, ext) ==
    /\ RequestRoute \in DOMAIN routes
    /\ ext \in BeginAnswers(req)
    /\ LET h == requestHandler(req, ext)
       IN /\ sessions' = IF h.set # NoEntry
                         THEN SessionSet(sessions, req.sess, h.set)
                         ELSE sessions
          /\ lastBegin' = IF h.status = StatusFound
                          THEN [lastBegin EXCEPT ![req.sess] =
                                   Marshal([provider |-> GetProviderName(req).name,
                                            state |-> setState(req)])]
                          ELSE lastBegin
          /\ obs' = [NoObs EXCEPT !.kind = "begin",
                                  !.path = req.params.provider,
                                  !.query = req.query.provider,
                                  !.name = GetProviderName(req).name,
                                  !.err = h.err, !.status = h.status,
                                  !.redirect = h.redirect, !.logs = h.logs,
                                  !.calls = h.calls,
                                  !.fired = IF h.status = StatusNotFound
                                            THEN ErrorHandlerFor(StatusNotFound)
                                            ELSE Nil]
    /\ UNCHANGED <<Config, successHandlers, failHandler, station, booted, routes,
                   errorHandlers, providers, ctxs>>

\* The context the framework's pool hands to a new request.
FreeContext(r) == ~ ctxs[r].busy /\ \A q \in ReqIds : q < r => ctxs[q].busy

\* A request to the callback route, in context r: its first handler, the
\* auth middleware, runs. On an error the 401 handler fires (failCallsUser:
\* the user's fail handler asks for Oauth.User); else the chain goes on.
CallbackRequest(r, req, ext, failCallsUser) ==
    /\ CallbackRoute \in DOMAIN routes
    /\ Head(routes[CallbackRoute]) = "authMiddleware"
    /\ FreeContext(r)
    /\ ext \in CompleteAnswers(req, sessions[req.sess])
    /\ failCallsUser => StatusUnauthorized \in DOMAIN errorHandlers
    /\ LET chain == routes[CallbackRoute]
           m == authMiddleware(req, sessions[req.sess], ext)
           fired == IF m.status = StatusUnauthorized
                    THEN ErrorHandlerFor(StatusUnauthorized) ELSE Nil
           asked == IF fired \in FailHandlers /\ failCallsUser
                    THEN User(m.values) ELSE NotCalled
       IN /\ sessions' = IF m.set # NoEntry
                         THEN SessionSet(sessions, req.sess, m.set)
                         ELSE sessions
          /\ ctxs' = IF m.next /\ Len(chain) > 1
                     THEN [ctxs EXCEPT ![r] =
                              [busy |-> TRUE, values |-> m.values,
                               ran |-> <<"authMiddleware">>, status |-> m.status]]
                     ELSE ctxs
          /\ obs' = [NoObs EXCEPT !.kind = "callback",
                                  !.path = req.params.provider,
                                  !.query = req.query.provider,
                                  !.name = GetProviderName(req).name,
                                  !.err = m.err, !.status = m.status,
                                  !.logs = m.logs, !.calls = m.calls,
                                  !.hadSession = (sessions[req.sess] # NoEntry),
                                  !.user = m.user, !.values = m.values,
                                  !.ran = <<"authMiddleware">>, !.next = m.next,
                                  !.fired = fired, !.userResult = asked]
    /\ UNCHANGED <<Config, successHandlers, failHandler, station, booted, routes,
                   errorHandlers, providers, lastBegin>>

\* ctx.Next() in context r: the chain's next handler, a Success handler,
\* runs. It may ask for Oauth.User and may call ctx.Next() itself.
SuccessHandler(r, callsUser, callsNext) ==
    /\ ctxs[r].busy
    /\ LET chain == routes[CallbackRoute]
           c == ctxs[r]
           h == chain[Len(c.ran) + 1]
           asked == IF callsUser THEN User(c.values) ELSE NotCalled
           ran == Append(c.ran, h)
           more == callsNext /\ asked # Panic /\ Len(ran) < Len(chain)
       IN /\ ctxs' = IF more THEN [ctxs EXCEPT ![r].ran = ran]
                     ELSE [ctxs EXCEPT ![r] = Idle]
          /\ obs' = [NoObs EXCEPT !.kind = "success",
                                  !.status = c.status, !.values = c.values,
                                  !.ran = ran, !.next = callsNext,
                                  !.userResult = asked]
    /\ UNCHANGED <<Config, successHandlers, failHandler, station, booted, routes,
                   errorHandlers, providers, sessions, lastBegin>>

Next ==
    \/ \E n \in 1..MaxHandlers : Success(n)
    \/ \E h \in FailHandlers : Fail(h)
    \/ boot
    \/ \E req \in BeginRequests, ext \in BeginOutcomes : BeginAuthRequest(req, ext)
    \/ \E r \in ReqIds, req \in CallbackRequests, ext \in CompleteOutcomes,
          failCallsUser \in BOOLEAN : CallbackRequest(r, req, ext, failCallsUser)
    \/ \E r \in ReqIds, callsUser \in BOOLEAN, callsNext \in BOOLEAN :
          SuccessHandler(r, callsUser, callsNext)

Spec == Init /\ [][Next]_vars

\* ------------------------------------------------------------------ claims
IsRequest == obs.kind \in {"begin", "callback"}
Busy(r) == ctxs[r].busy
HasUser(values) == Config.ContextKey \in DOMAIN values

\* C1: on the callback route the failure handling and the Success handlers
\* exclude each other. When CompleteUserAuth returns an error the auth
\* middleware emits 401 (the handler for 401 fires) and does not call the
\* next handler; when it returns a user the middleware emits no 401 and
\* calls the next handler; a Success handler only ever runs in a context in
\* which the middleware emitted no 401.
C1_MutuallyExclusive ==
    /\ obs.kind = "callback" /\ obs.err # NoErr =>
          /\ obs.status = StatusUnauthorized
          /\ obs.fired = (IF failHandler # Nil THEN failHandler ELSE "default")
          /\ ~ obs.next
    /\ obs.kind = "callback" /\ obs.err = NoErr =>
          /\ obs.status # StatusUnauthorized
          /\ obs.fired = Nil
          /\ obs.next
          /\ Len(routes[CallbackRoute]) > 1 =>
                \E r \in ReqIds : Busy(r) /\ ctxs[r].ran = <<"authMiddleware">>
    /\ obs.kind = "success" => obs.status # StatusUnauthorized
    /\ \A r \in ReqIds : Busy(r) => ctxs[r].status # StatusUnauthorized

\* A Success handler chain is in flight in one context while another request
\* has just been answered 401 by the user's fail handler.
C1_Witness ==
    /\ obs.kind = "callback"
    /\ obs.status = StatusUnauthorized
    /\ obs.fired \in FailHandlers
    /\ \E r \in ReqIds : Busy(r) /\ Len(ctxs[r].ran) > 1

\* C2 as stated: CompleteUserAuth on a session with no entry under
\* SessionValueKey returns the no-matching-session error for every request.
C2_Original ==
    obs.kind = "callback" /\ ~ obs.hadSession => obs.err = ErrNoSession

\* C2, amended: CompleteUserAuth on a session with no entry under
\* SessionValueKey returns the no-matching-session error (and the zero user,
\* calling no provider method) whenever the request names a registered
\* provider; the name and lookup errors come first.
C2_NoMatchingSession ==
    /\ obs.kind = "callback" /\ ~ obs.hadSession /\ obs.name \in providers =>
          /\ obs.err = ErrNoSession
          /\ obs.user = EmptyUser
          /\ obs.calls = <<>>
    /\ obs.kind = "callback" /\ ~ obs.hadSession =>
          obs.err \in {ErrNoProvider, ErrLookup, ErrNoSession}

C2_Witness ==
    obs.kind = "callback" /\ ~ obs.hadSession /\ obs.err = ErrNoSession

\* C3: a request that names a provider missing from the registry gets the
\* provider-lookup error on both routes: no redirect, no user, nothing put
\* in the context, and no provider method called.
C3_UnregisteredProvider ==
    IsRequest /\ obs.name # "" /\ obs.name \notin providers =>
       /\ obs.err = ErrLookup
       /\ obs.redirect = NoURL
       /\ obs.status # StatusFound
       /\ obs.user = EmptyUser
       /\ obs.values = NoValues
       /\ obs.calls = <<>>

C3_Witness ==
    obs.kind = "callback" /\ obs.name = "nope" /\ obs.err = ErrLookup /\ obs.hadSession

\* C4 as stated: every error, on either route, is reported by a log entry
\* and a 401 response.
C4_Original ==
    IsRequest /\ obs.err # NoErr =>
       obs.status = StatusUnauthorized /\ obs.logs # <<>>

NoRetry(calls) == \A i, j \in 1..Len(calls) : calls[i] = calls[j] => i = j

\* C4, amended: every error is reported by one log entry and an error
\* response, 401 on the callback route and 404 on the request-initiation
\* route; no provider call is made twice.
C4_Reported ==
    /\ obs.kind = "callback" /\ obs.err # NoErr =>
          obs.status = StatusUnauthorized /\ obs.logs = <<DevMode>>
    /\ obs.kind = "begin" /\ obs.err # NoErr =>
          obs.status = StatusNotFound /\ obs.logs = <<DevMode>>
    /\ IsRequest /\ obs.err = NoErr =>
          obs.status \notin {StatusUnauthorized, StatusNotFound} /\ obs.logs = <<>>
    /\ NoRetry(obs.calls)

C4_Witness ==
    obs.kind = "begin" /\ obs.err = ErrBeginAuth /\ obs.status = StatusNotFound

RegisteredOrder(n) == [i \in 1..n |-> IF i = 1 THEN "authMiddleware" ELSE Handler(i - 1)]

\* C5: on a successful callback the user CompleteUserAuth returned is in the
\* context under ContextKey before any Success handler runs, and the
\* handlers run after the auth middleware in their order of registration.
C5_UserThenHandlersInOrder ==
    /\ obs.kind = "callback" /\ obs.err = NoErr =>
          HasUser(obs.values) /\ obs.values[Config.ContextKey] = obs.user
    /\ \A r \in ReqIds : Busy(r) =>
          /\ HasUser(ctxs[r].values)
          /\ ctxs[r].values[Config.ContextKey] = FetchedUser("github")
          /\ ctxs[r].ran = RegisteredOrder(Len(ctxs[r].ran))
    /\ obs.kind = "success" =>
          /\ HasUser(obs.values)
          /\ obs.ran = RegisteredOrder(Len(obs.ran))
          /\ Len(obs.ran) <= Len(routes[CallbackRoute])
    /\ CallbackRoute \in DOMAIN routes =>
          /\ routes[CallbackRoute] = RegisteredOrder(Len(routes[CallbackRoute]))
          /\ routes[CallbackRoute] = successHandlers

C5_Witness ==
    obs.kind = "success" /\ obs.ran = <<"authMiddleware", Handler(1), Handler(2)>>

\* C6: GetProviderName gives the path parameter when it is not empty, else
\* the query parameter, and the must-select-a-provider error exactly when
\* both are empty; never an empty name without an error.
C6_ProviderName ==
    IsRequest =>
       /\ obs.name = (IF obs.path # "" THEN obs.path ELSE obs.query)
       /\ (obs.err = ErrNoProvider) <=> (obs.path = "" /\ obs.query = "")
       /\ obs.name = "" => obs.err # NoErr

C6_Witness ==
    obs.kind = "callback" /\ obs.path = "" /\ obs.query = "github"
    /\ obs.name = "github" /\ obs.err = NoErr

Changed(f, g) == {x \in DOMAIN f : f[x] # g[x]}

\* C7: a step that serves a request leaves the adaptor's fields, the routes,
\* the error handlers and the provider registry as they were, and writes at
\* most one context and at most one session.
C7_Independent ==
    [][ (obs' # obs \/ ctxs' # ctxs \/ sessions' # sessions) =>
           /\ UNCHANGED <<Config, successHandlers, failHandler, station>>
           /\ UNCHANGED <<booted, routes, errorHandlers, providers>>
           /\ Cardinality(Changed(ctxs, ctxs')) <= 1
           /\ Cardinality(Changed(sessions, sessions')) <= 1
           /\ sessions' # sessions =>
                 \E req \in BeginRequests, ext \in BeginOutcomes :
                    /\ BeginAuthRequest(req, ext)
                    /\ Changed(sessions, sessions') = {req.sess} ]_vars

C7_Witness ==
    /\ \A r \in ReqIds : Busy(r)
    /\ \E s \in SessionIds : sessions[s] # NoEntry
    /\ \E s \in SessionIds : sessions[s] = NoEntry

\* C8: Oauth.User gives the user stored under ContextKey, and an empty
\* result, not a failure, when none is stored.
C8_UserNeverFails ==
    obs.userResult.called =>
       /\ ~ obs.userResult.panic
       /\ obs.userResult.user =
             (IF HasUser(obs.values) THEN obs.values[Config.ContextKey] ELSE EmptyUser)

\* The three settings are set and a provider is configured.
Configured ==
    /\ Config.RequestPath # ""
    /\ Config.CallbackRelativePath # ""
    /\ Config.RequestPathParam # ""
    /\ Config.Credentials # {}

\* C9: boot registers the two routes and the 401 handler only when the three
\* settings are set and a provider is configured; otherwise it registers no
\* route, no error handler and no provider, and leaves successHandlers and
\* station as they were.
C9_BootGuards ==
    [][ (~ booted /\ booted') =>
           IF Configured
           THEN /\ DOMAIN routes' = {RequestRoute, CallbackRoute}
                /\ failHandler # Nil =>
                      StatusUnauthorized \in DOMAIN errorHandlers'
                      /\ errorHandlers'[StatusUnauthorized] = failHandler
                /\ providers' # {}
           ELSE /\ UNCHANGED <<routes, errorHandlers, providers>>
                /\ UNCHANGED <<successHandlers, station>>
                /\ DOMAIN routes' = {}
                /\ DOMAIN errorHandlers' = {}
                /\ providers' = {} ]_vars

C9_Witness ==
    /\ booted
    /\ Config.RequestPathParam = ""
    /\ Config.RequestPath # ""
    /\ Config.CallbackRelativePath # ""
    /\ Config.Credentials # {}
    /\ Len(successHandlers) = MaxHandlers
    /\ failHandler # Nil
    /\ DOMAIN routes = {}

\* C10: a session's entry under SessionValueKey is absent until a begin-auth
\* succeeds in the session, and from then on is what the most recent
\* successful begin-auth marshalled: a failed begin-auth and a callback leave
\* it as it is.
C10_SessionEntry ==
    \A s \in SessionIds : sessions[s] = lastBegin[s]

C10_Witness ==
    /\ obs.kind = "callback"
    /\ obs.hadSession
    /\ \E s \in SessionIds :
          sessions[s] = Marshal([provider |-> "github", state |-> "xyz"])
    /\ \E s \in SessionIds :
          sessions[s] = Marshal([provider |-> "github", state |-> "state"])
====
